---------------------------- MODULE Spec2Model ----------------------------
(***************************************************************************)
(* The cutting-stock pipeline of 1d-nesting: optimizeCutting and the       *)
(* pattern search generatePatterns of src/src/algorithm.cpp.               *)
(*                                                                         *)
(* A real length (a C++ double) is its numerator over the denominator Den, *)
(* Den = PRECISION_SCALE * Sub: Sub values lie between two neighbouring    *)
(* scaled integers, so the rounding of the scaling is visible.  With Sub a *)
(* power of two every value is a dyadic rational and the double arithmetic *)
(* of the source is exact on it.                                           *)
(***************************************************************************)
EXTENDS Integers, Sequences, FiniteSets, TLC

PRECISION_SCALE == 1024

\* Bounds of the model.
Sub == 4
MaxCuts == 3
MaxCalls == 2
ColDen == 4
MaxDepth == 8

Den == PRECISION_SCALE * Sub

\* The real k / PRECISION_SCALE and the real n inches, as numerators over Den.
Grid(k) == k * Sub
Inches(n) == n * Den

---------------------------------------------------------------------------
\* Helpers on sequences.

RECURSIVE SumSeq(_)
SumSeq(s) == IF s = <<>> THEN 0 ELSE Head(s) + SumSeq(Tail(s))

Range(s) == {s[i] : i \in 1..Len(s)}

CountOf(x, s) == Cardinality({i \in 1..Len(s) : s[i] = x})

\* operator< of std::vector: lexicographic order.
RECURSIVE LexLess(_, _)
LexLess(a, b) ==
    IF b = <<>> THEN FALSE
    ELSE IF a = <<>> THEN TRUE
    ELSE IF Head(a) < Head(b) THEN TRUE
    ELSE IF Head(b) < Head(a) THEN FALSE
    ELSE LexLess(Tail(a), Tail(b))

IntLess(a, b) == a < b

\* std::sort(p.begin(), p.end()) on one pattern.
SortAscendingUnsorted(p) == p
SortAscending(p) == SortSeq(p, IntLess)

\* std::unique: drops every element equal to its predecessor.
RECURSIVE Unique(_)
Unique(s) ==
    IF Len(s) <= 1 THEN s
    ELSE IF s[1] = s[2] THEN Unique(Tail(s))
    ELSE <<s[1]>> \o Unique(Tail(s))

\* n copies of x.
RECURSIVE Repeat(_, _)
Repeat(x, n) == IF n = 0 THEN <<>> ELSE <<x>> \o Repeat(x, n - 1)

\* The elements of a set of integers as a descending sequence.
RECURSIVE SetToDescending(_)
SetToDescending(S) ==
    IF S = {} THEN <<>>
    ELSE LET m == CHOOSE x \in S : \A y \in S : y <= x
         IN <<m>> \o SetToDescending(S \ {m})

---------------------------------------------------------------------------
\* Length Scaler.

\* std::round(n / d): to the nearest integer, halves away from zero.
RoundDiv(n, d) ==
    LET a == IF n >= 0 THEN n ELSE -n
        q == a \div d
        r == a % d
        m == IF 2 * r >= d THEN q + 1 ELSE q
    IN IF n >= 0 THEN m ELSE -m

\* static_cast<long long>(std::round(x * PRECISION_SCALE))
ScaleLength(x) == RoundDiv(x * PRECISION_SCALE, Den)

\* static_cast<double>(scaled_len) / PRECISION_SCALE
UnscaleWhole(s) == (s \div PRECISION_SCALE) * Den
Unscale(s) == s * (Den \div PRECISION_SCALE)

---------------------------------------------------------------------------
\* The calls of optimizeCutting the model makes.

Cut(len, id) == [length |-> len, id |-> id]

\* The cut list a caller builds: ids count from 1.
MakeCuts(lens) == [i \in 1..Len(lens) |-> Cut(lens[i], i)]

StockChoices == {Grid(6), Grid(6) + (Sub \div 2)}
KerfChoices == {1, Grid(1)}
LengthChoices == {Grid(2), Grid(3), Grid(3) + 1}

SeqsUpTo(S, n) == UNION {[1..k -> S] : k \in 1..n}

Call(lens, stock, k) == [cuts |-> MakeCuts(lens), stockLen |-> stock, kerf |-> k]

FamilyCalls ==
    {Call(lens, s, k) : lens \in SeqsUpTo(LengthChoices, MaxCuts),
                        s \in StockChoices, k \in KerfChoices}

\* Scenario A: lengths {60, 40, 20}, stock 100, kerf 0.
ScenarioA == Call(<<Inches(60), Inches(40), Inches(20)>>, Inches(100), 0)
\* Scenario B: five pieces of 90, stock 288, kerf 1/8.
ScenarioB ==
    Call([i \in 1..5 |-> Inches(90)], Inches(288), Inches(1) \div 8)
\* Scenario C: a single cut longer than the stock.
ScenarioC == Call(<<Grid(7)>>, Grid(6), Grid(1))
\* One cut longer than the stock beside one that fits.
ScenarioD == Call(<<Grid(7), Grid(2)>>, Grid(6), Grid(1))

\* One cut longer than the stock by less than half a scaled unit.
ScenarioOver == Call(<<Grid(6) + 1>>, Grid(6), Grid(1))

\* A cut and a kerf above zero that both scale to zero.
ScenarioTiny == Call(<<1>>, Grid(6), 1)

Calls ==
    FamilyCalls \cup {ScenarioA, ScenarioB, ScenarioC, ScenarioD, ScenarioOver,
                      ScenarioTiny}

\* What the web handler and the command-line flow let through.
AcceptedByCaller(c) ==
    /\ c.stockLen > 0
    /\ c.kerf > 0
    /\ Len(c.cuts) > 0
    /\ \A i \in 1..Len(c.cuts) :
          c.cuts[i].length > 0 /\ c.cuts[i].length <= c.stockLen

---------------------------------------------------------------------------
\* The requests the web handler and the command-line flow receive: the stock
\* length, the kerf and the cut items as parseAdvancedLength and parseFraction
\* returned them.

MaxItems == 2

\* The double NaN, which std::stod returns for "nan": the one value that is
\* neither <= 0 nor > 0.  No length of the model is this number.
NaN == -2147483647

Item(len, qty) == [length |-> len, quantity |-> qty]

StockInputs == {0, Inches(4)}
KerfInputs == {0, Grid(1), NaN}
ItemChoices ==
    {Item(Inches(2), 1), Item(Inches(2) + (Den \div 2), 2), Item(Inches(5), 1),
     Item(Inches(5), 0), Item(0, 1)}

\* Three pieces of 2 1/2 and two of 1 inch from a stock of 4 inches.
RequestMixed ==
    [stockLength |-> Inches(4), kerf |-> Grid(1),
     cuts |-> <<Item(Inches(2) + (Den \div 2), 3), Item(Inches(1), 2)>>]

Requests ==
    {[stockLength |-> s, kerf |-> k, cuts |-> items] :
        s \in StockInputs, k \in KerfInputs,
        items \in {<<>>} \cup SeqsUpTo(ItemChoices, MaxItems)}
      \cup {RequestMixed}

NoRequest == [stockLength |-> 0, kerf |-> 0, cuts |-> <<>>]

\* res.status (or the exit code), the error text, and the cut plan put out:
\* in the response body, on the console, in the HTML file, in the browser.
NoResponse ==
    [status |-> 0, error |-> "none", solution |-> FALSE, printed |-> FALSE,
     html |-> FALSE, opened |-> FALSE, patterns |-> <<>>]

---------------------------------------------------------------------------
VARIABLES
    pc,               \* where optimizeCutting is
    callNo,           \* how many calls were made
    cuts, stockLen, kerf,                         \* the arguments
    scaled_stockLen, scaled_kerf, allScaledCuts,  \* the scaled arguments
    uniqueCuts, currentPattern, stack, patterns,  \* generatePatterns
    model,            \* the HighsModel passed to the solver
    status,           \* highs.getModelStatus()
    col_value,        \* highs.getSolution().col_value, numerators over ColDen
    result,           \* the Solution returned
    cerr,             \* the diagnostic written to std::cerr
    prev,             \* the previous call's generatePatterns arguments and result
    entry,            \* who calls: "direct", the web handler "web", the flow "cli"
    request,          \* what the caller received, as the parsers returned it
    response,         \* what the caller answered or reported
    sticksIn, grouped,  \* an argument of groupPatterns and what it returned
    text, parsed      \* an argument of a parser and what it returned

vars == <<pc, callNo, cuts, stockLen, kerf, scaled_stockLen, scaled_kerf,
          allScaledCuts, uniqueCuts, currentPattern, stack, patterns,
          model, status, col_value, result, cerr, prev,
          entry, request, response, sticksIn, grouped, text, parsed>>

argVars == <<cuts, stockLen, kerf>>
scaledVars == <<scaled_stockLen, scaled_kerf, allScaledCuts>>
genVars == <<uniqueCuts, currentPattern, stack, patterns>>
solveVars == <<model, status, col_value, result, cerr>>
callerVars == <<entry, request, response>>
unitVars == <<sticksIn, grouped, text, parsed>>

NoPrev == [used |-> FALSE, availableCuts |-> {}, stockLen |-> 0, kerf |-> 0,
           patterns |-> <<>>, listDiffers |-> FALSE]

\* HighsModel before anything is assigned to it.
EmptyModel ==
    [num_col_ |-> 0, num_row_ |-> 0, col_cost_ |-> <<>>, col_lower_ |-> <<>>,
     col_upper_ |-> <<>>, integrality_ |-> <<>>, row_lower_ |-> <<>>,
     row_upper_ |-> <<>>, start_ |-> <<>>, index_ |-> <<>>, value_ |-> <<>>,
     sense_ |-> "kMinimize"]

\* Solution(): no sticks, total_waste 0, num_sticks 0.
EmptySolution == [sticks |-> <<>>, total_waste |-> 0, num_sticks |-> 0]

\* No parser and no groupPatterns call of its own is under way.
UnitsIdle ==
    sticksIn = <<>> /\ grouped = <<>> /\ text = <<>> /\ parsed = [n |-> 0, d |-> 1]

Init ==
    /\ \/ /\ entry = "direct"
          /\ pc = "start"
          /\ callNo = 1
          /\ request = NoRequest
          /\ \E c \in Calls :
                cuts = c.cuts /\ stockLen = c.stockLen /\ kerf = c.kerf
       \/ /\ entry \in {"web", "cli"}
          /\ pc = "request"
          /\ callNo = 0
          /\ request \in Requests
          /\ cuts = <<>> /\ stockLen = 0 /\ kerf = 0
    /\ response = NoResponse
    /\ UnitsIdle
    /\ scaled_stockLen = 0 /\ scaled_kerf = 0 /\ allScaledCuts = <<>>
    /\ uniqueCuts = <<>> /\ currentPattern = <<>> /\ stack = <<>>
    /\ patterns = <<>>
    /\ model = EmptyModel /\ status = "kNotset" /\ col_value = <<>>
    /\ result = EmptySolution /\ cerr = "none"
    /\ prev = NoPrev

\* optimizeCutting, lines 24-35: scale the arguments.
Scaling ==
    /\ pc = "start"
    /\ kerf # NaN
    /\ scaled_stockLen' = ScaleLength(stockLen)
    /\ scaled_kerf' = ScaleLength(kerf)
    /\ allScaledCuts' = [i \in 1..Len(cuts) |-> ScaleLength(cuts[i].length)]
    /\ pc' = "scaled"
    /\ UNCHANGED <<callNo, argVars, genVars, solveVars, prev, callerVars, unitVars>>

\* Lines 26-27 on a kerf that is NaN: the conversion of NaN to long long is
\* undefined, and the model follows the call no further.
ScalingNaN ==
    /\ pc = "start"
    /\ kerf = NaN
    /\ pc' = "undefined"
    /\ UNCHANGED <<callNo, argVars, scaledVars, genVars, solveVars, prev, callerVars, unitVars>>

\* generatePatterns, lines 170-172: the distinct cuts, longest first.
UniqueCutsSkipFirst(availableCuts) ==
    SetToDescending({availableCuts[i] : i \in 2..Len(availableCuts)})
UniqueCuts(availableCuts) == SetToDescending(Range(availableCuts))

\* A call findPatterns(startIndex, remainingLen): records the current
\* combination, then starts its loop at startIndex.
FrameUnspent(startIndex, remainingLen) ==
    [startIndex |-> startIndex, remainingLen |-> scaled_stockLen, i |-> startIndex]
Frame(startIndex, remainingLen) ==
    [startIndex |-> startIndex, remainingLen |-> remainingLen, i |-> startIndex]

RecordEvery(cur, pats) == IF cur # <<>> THEN Append(pats, cur) ELSE pats

\* The index the recursive call starts from: findPatterns(i, ...).
NextStartIndexNoRepeat(i) == i + 1
NextStartIndex(i) == i

\* cutLength + (currentPattern.empty() ? 0 : kerf)
RequiredSpaceNoKerf(cutLength, cur, k) == cutLength
RequiredSpace(cutLength, cur, k) == cutLength + (IF cur = <<>> THEN 0 ELSE k)

\* generatePatterns, lines 170-175 and 201: the first call of findPatterns.
GeneratePatternsBegin ==
    /\ pc = "scaled"
    /\ uniqueCuts' = UniqueCuts(allScaledCuts)
    /\ currentPattern' = <<>>
    /\ patterns' = RecordEvery(<<>>, <<>>)
    /\ stack' = <<Frame(0, scaled_stockLen)>>
    /\ pc' = "find"
    /\ UNCHANGED <<callNo, argVars, scaledVars, solveVars, prev, callerVars, unitVars>>

Top == stack[Len(stack)]

\* One iteration of the loop of findPatterns whose cut fits: push it and recurse.
FindPatternsFits ==
    /\ pc = "find"
    /\ Top.i < Len(uniqueCuts)
    /\ Len(stack) < MaxDepth
    /\ LET cutLength == uniqueCuts[Top.i + 1]
           requiredSpace == RequiredSpace(cutLength, currentPattern, scaled_kerf)
       IN /\ Top.remainingLen >= requiredSpace
          /\ currentPattern' = Append(currentPattern, cutLength)
          /\ patterns' = RecordEvery(currentPattern', patterns)
          /\ stack' = Append(stack, Frame(NextStartIndex(Top.i),
                                          Top.remainingLen - requiredSpace))
    /\ UNCHANGED <<pc, callNo, argVars, scaledVars, uniqueCuts, solveVars, prev, callerVars, unitVars>>

\* The cut fits at a depth of MaxDepth calls.  No call of the model whose cuts
\* take space nests that deep; the only search that does is the one that never
\* uses up remainingLen, which recurses until the stack or the memory is
\* exhausted and the process ends.
FindPatternsExhausts ==
    /\ pc = "find"
    /\ Top.i < Len(uniqueCuts)
    /\ Len(stack) >= MaxDepth
    /\ Top.remainingLen
          >= RequiredSpace(uniqueCuts[Top.i + 1], currentPattern, scaled_kerf)
    /\ pc' = "exhausted"
    /\ UNCHANGED <<callNo, argVars, scaledVars, genVars, solveVars, prev,
                   callerVars, unitVars>>

\* One iteration whose cut does not fit: the loop moves on.
FindPatternsSkips ==
    /\ pc = "find"
    /\ Top.i < Len(uniqueCuts)
    /\ LET cutLength == uniqueCuts[Top.i + 1]
           requiredSpace == RequiredSpace(cutLength, currentPattern, scaled_kerf)
       IN Top.remainingLen < requiredSpace
    /\ stack' = [stack EXCEPT ![Len(stack)].i = @ + 1]
    /\ UNCHANGED <<pc, callNo, argVars, scaledVars, uniqueCuts, currentPattern,
                   patterns, solveVars, prev, callerVars, unitVars>>

\* The loop of a nested call is over: return, backtrack, next iteration of the caller.
FindPatternsReturns ==
    /\ pc = "find"
    /\ Top.i >= Len(uniqueCuts)
    /\ Len(stack) > 1
    /\ currentPattern' = SubSeq(currentPattern, 1, Len(currentPattern) - 1)
    /\ stack' = [SubSeq(stack, 1, Len(stack) - 1)
                    EXCEPT ![Len(stack) - 1].i = @ + 1]
    /\ UNCHANGED <<pc, callNo, argVars, scaledVars, uniqueCuts, patterns, solveVars,
                   prev, callerVars, unitVars>>

\* std::sort(patterns) then std::unique, on the patterns each sorted ascending.
RemoveDuplicates(pats) ==
    Unique(SortSeq([i \in 1..Len(pats) |-> SortAscending(pats[i])], LexLess))

\* The first call returned: lines 203-210, sort and remove duplicates.
GeneratePatternsEnd ==
    /\ pc = "find"
    /\ Top.i >= Len(uniqueCuts)
    /\ Len(stack) = 1
    /\ stack' = <<>>
    /\ patterns' = RemoveDuplicates(patterns)
    /\ pc' = "generated"
    /\ UNCHANGED <<callNo, argVars, scaledVars, uniqueCuts, currentPattern,
                   solveVars, prev, callerVars, unitVars>>

---------------------------------------------------------------------------
\* optimizeCutting after generatePatterns.

\* Lines 39-44: no pattern, the failure result.
NoPatterns ==
    /\ pc = "generated"
    /\ patterns = <<>>
    /\ cerr' = "no valid cutting patterns"
    /\ result' = EmptySolution
    /\ pc' = "done"
    /\ UNCHANGED <<callNo, argVars, scaledVars, genVars, model, status, col_value,
                   prev, callerVars, unitVars>>

kHighsInf == 2147483647

\* Lines 52-55: cutDemand[scaled_len]++ over all scaled cuts.
CutDemandOnce(scaledCuts, len) == IF len \in Range(scaledCuts) THEN 1 ELSE 0
CutDemand(scaledCuts, len) == CountOf(len, scaledCuts)

\* Lines 58-62: the keys of cutDemand, sorted ascending.
RECURSIVE Reverse(_)
Reverse(s) == IF s = <<>> THEN <<>> ELSE Append(Reverse(Tail(s)), Head(s))

UniqueCutKeysInputOrder(scaledCuts) ==
    IF scaledCuts = <<>> THEN <<>>
    ELSE LET first == {i \in 1..Len(scaledCuts) :
                         \A j \in 1..(i - 1) : scaledCuts[j] # scaledCuts[i]}
             nth(k) == CHOOSE i \in first :
                          Cardinality({j \in first : j < i}) = k - 1
         IN [k \in 1..Cardinality(first) |-> scaledCuts[nth(k)]]
UniqueCutKeys(scaledCuts) == Reverse(SetToDescending(Range(scaledCuts)))

\* Lines 83-86: patternCounts[piece]++ over the pieces of one pattern.
PatternCountsPresent(pattern, len) == IF len \in Range(pattern) THEN 1 ELSE 0
PatternCounts(pattern, len) == CountOf(len, pattern)

\* Lines 88-94: the entries of one column, as <<row index, value>> pairs in row order.
RECURSIVE ColumnEntries(_, _, _)
ColumnEntries(pattern, keys, i) ==
    IF i >= Len(keys) THEN <<>>
    ELSE LET cutLen == keys[i + 1]
         IN (IF PatternCounts(pattern, cutLen) > 0
             THEN <<<<i, PatternCounts(pattern, cutLen)>>>>
             ELSE <<>>) \o ColumnEntries(pattern, keys, i + 1)

\* Lines 78-96: Astart, Aindex, Avalue over the patterns seen so far.
RECURSIVE BuildMatrix(_, _, _)
BuildMatrix(pats, keys, acc) ==
    IF pats = <<>> THEN acc
    ELSE LET col == ColumnEntries(Head(pats), keys, 0)
             Aindex == acc.Aindex \o [k \in 1..Len(col) |-> col[k][1]]
             Avalue == acc.Avalue \o [k \in 1..Len(col) |-> col[k][2]]
         IN BuildMatrix(Tail(pats), keys,
                        [Astart |-> Append(acc.Astart, Len(Aindex)),
                         Aindex |-> Aindex, Avalue |-> Avalue])

\* Lines 98-102: the bounds of row i.
RowUpperRelaxed(scaledCuts, keys, i) == kHighsInf
RowLower(scaledCuts, keys, i) == CutDemand(scaledCuts, keys[i + 1])
RowUpper(scaledCuts, keys, i) == CutDemand(scaledCuts, keys[i + 1])

\* Lines 46-108: the model handed to the solver.
BuildModelOf(pats, scaledCuts) ==
    LET uniqueCutKeys == UniqueCutKeys(scaledCuts)
        numRows == Cardinality(Range(scaledCuts))
        A == BuildMatrix(pats, uniqueCutKeys,
                         [Astart |-> <<0>>, Aindex |-> <<>>, Avalue |-> <<>>])
    IN [num_col_ |-> Len(pats),
        col_cost_ |-> [p \in 1..Len(pats) |-> 1],
        col_lower_ |-> [p \in 1..Len(pats) |-> 0],
        col_upper_ |-> [p \in 1..Len(pats) |-> kHighsInf],
        integrality_ |-> [p \in 1..Len(pats) |-> "kInteger"],
        num_row_ |-> numRows,
        row_lower_ |-> [r \in 1..numRows |-> RowLower(scaledCuts, uniqueCutKeys, r - 1)],
        row_upper_ |-> [r \in 1..numRows |-> RowUpper(scaledCuts, uniqueCutKeys, r - 1)],
        start_ |-> A.Astart, index_ |-> A.Aindex, value_ |-> A.Avalue,
        sense_ |-> "kMinimize"]

BuildModel ==
    /\ pc = "generated"
    /\ patterns # <<>>
    /\ model' = BuildModelOf(patterns, allScaledCuts)
    /\ pc' = "built"
    /\ UNCHANGED <<callNo, argVars, scaledVars, genVars, status, col_value, result,
                   cerr, prev, callerVars, unitVars>>

---------------------------------------------------------------------------
\* The external solver (HiGHS), by its contract: an optimal solution of the
\* integer program it was passed, or a status that is not optimal.

\* The entry of row r (0-based) in column p (1-based) of the column-wise matrix.
Entry(lp, r, p) ==
    LET ks == {k \in (lp.start_[p] + 1)..lp.start_[p + 1] : lp.index_[k] = r}
    IN IF ks = {} THEN 0 ELSE lp.value_[CHOOSE k \in ks : TRUE]

\* The integer vectors for columns p.. that use exactly k more sticks and keep
\* every row at or below its upper bound, given what the columns before made.
RECURSIVE Completions(_, _, _, _)
Completions(lp, p, k, made) ==
    IF p > lp.num_col_
    THEN IF k = 0 /\ \A r \in 1..lp.num_row_ : made[r] >= lp.row_lower_[r]
         THEN {<<>>} ELSE {}
    ELSE UNION {
           LET m == [r \in 1..lp.num_row_ |-> made[r] + v * Entry(lp, r - 1, p)]
           IN IF \A r \in 1..lp.num_row_ : m[r] <= lp.row_upper_[r]
              THEN {<<v>> \o t : t \in Completions(lp, p + 1, k - v, m)}
              ELSE {}
           : v \in {w \in 0..k : lp.col_lower_[p] <= w /\ w <= lp.col_upper_[p]} }

FeasibleWith(lp, k) == Completions(lp, 1, k, [r \in 1..lp.num_row_ |-> 0])

\* No optimal solution uses more sticks than the rows demand in total.
MostSticks(lp) == SumSeq(lp.row_lower_)

IsFeasible(lp) == \E k \in 0..MostSticks(lp) : FeasibleWith(lp, k) # {}

OptimalValue(lp) ==
    CHOOSE k \in 0..MostSticks(lp) :
        /\ FeasibleWith(lp, k) # {}
        /\ \A j \in 0..(k - 1) : FeasibleWith(lp, j) = {}

OptimalSolutions(lp) == FeasibleWith(lp, OptimalValue(lp))

\* Lines 110-112, status optimal: the column values are the integers of an
\* optimal solution, each off by the same small error.
RunOptimal ==
    /\ pc = "built"
    /\ IsFeasible(model)
    /\ \E x \in OptimalSolutions(model), eps \in {-1, 0, 1} :
          col_value' = [p \in 1..model.num_col_ |-> x[p] * ColDen + eps]
    /\ status' = "kOptimal"
    /\ pc' = "solved"
    /\ UNCHANGED <<callNo, argVars, scaledVars, genVars, model, result, cerr, prev, callerVars, unitVars>>

\* The solver's ends without a proven optimum: an error; no solution of the
\* model; or a limit reached, the incumbent (one stick per cut) in col_value.
Incumbents(lp) == FeasibleWith(lp, MostSticks(lp))

NonOptimalOutcomes(lp) ==
    {[status |-> "kSolveError", col_value |-> <<>>]}
        \cup (IF IsFeasible(lp)
              THEN {[status |-> "kTimeLimit",
                     col_value |-> [p \in 1..lp.num_col_ |-> x[p] * ColDen]]
                       : x \in Incumbents(lp)}
              ELSE {[status |-> "kInfeasible", col_value |-> <<>>]})

\* Line 112: highs.getModelStatus() == HighsModelStatus::kOptimal
IsOptimalOrLimit(st) == st \in {"kOptimal", "kTimeLimit"}
IsOptimal(st) == st = "kOptimal"

\* Lines 110-118: any other status, the failure result.
RunNotOptimal ==
    /\ pc = "built"
    /\ \E o \in NonOptimalOutcomes(model) :
          /\ status' = o.status
          /\ col_value' = o.col_value
          /\ IF IsOptimal(o.status)
             THEN pc' = "solved" /\ UNCHANGED <<result, cerr>>
             ELSE /\ cerr' = "HiGHS could not find an optimal solution"
                  /\ result' = EmptySolution
                  /\ pc' = "done"
    /\ UNCHANGED <<callNo, argVars, scaledVars, genVars, model, prev, callerVars, unitVars>>

---------------------------------------------------------------------------
\* Solution Decoder.

\* static_cast<int>(std::round(solution.col_value[i]))
NumSticksTruncated(v) == IF v >= 0 THEN v \div ColDen ELSE -((-v) \div ColDen)
NumSticks(v) == RoundDiv(v, ColDen)

\* Lines 131-142: the used length of one pattern, with the unscaled kerf.
PreciseUsedLenScaledKerf(pattern, k) ==
    SumSeq([j \in 1..Len(pattern) |-> Unscale(pattern[j])])
        + (IF Len(pattern) > 0
           THEN (Len(pattern) - 1) * Unscale(ScaleLength(k)) ELSE 0)
PreciseUsedLenKerfEach(pattern, k) ==
    SumSeq([j \in 1..Len(pattern) |-> Unscale(pattern[j])]) + Len(pattern) * k
PreciseUsedLen(pattern, k) ==
    SumSeq([j \in 1..Len(pattern) |-> Unscale(pattern[j])])
        + (IF Len(pattern) > 0 THEN (Len(pattern) - 1) * k ELSE 0)

\* Lines 144-151: one Stick of a pattern.
StickOf(pattern, stock, k) ==
    [cuts |-> [j \in 1..Len(pattern) |-> Cut(Unscale(pattern[j]), 0)],
     stock_len |-> stock,
     used_len |-> PreciseUsedLen(pattern, k),
     waste_len |-> stock - PreciseUsedLen(pattern, k)]

\* Line 152: what one column adds to totalUsedLengthPrecise.
UsedByColumnOnce(pattern, k, numSticks) == PreciseUsedLen(pattern, k)
UsedByColumn(pattern, k, numSticks) == PreciseUsedLen(pattern, k) * numSticks

\* Lines 125-153: the loop over the columns, from column i (1-based) on.
RECURSIVE DecodeFrom(_, _, _, _, _, _)
DecodeFrom(i, pats, values, stock, k, acc) ==
    IF i > Len(pats) THEN acc
    ELSE LET numSticks == NumSticks(values[i])
         IN IF numSticks = 0
            THEN DecodeFrom(i + 1, pats, values, stock, k, acc)
            ELSE DecodeFrom(i + 1, pats, values, stock, k,
                   [sticks |-> acc.sticks \o
                        [s \in 1..(IF numSticks > 0 THEN numSticks ELSE 0)
                            |-> StickOf(pats[i], stock, k)],
                    totalUsedLengthPrecise |-> acc.totalUsedLengthPrecise
                        + UsedByColumn(pats[i], k, numSticks)])

\* Lines 120-158.
DecodeSolution(pats, values, stock, k) ==
    LET d == DecodeFrom(1, pats, values, stock, k,
                        [sticks |-> <<>>, totalUsedLengthPrecise |-> 0])
    IN [sticks |-> d.sticks,
        num_sticks |-> Len(d.sticks),
        total_waste |-> Len(d.sticks) * stock - d.totalUsedLengthPrecise]

Decode ==
    /\ pc = "solved"
    /\ result' = DecodeSolution(patterns, col_value, stockLen, kerf)
    /\ pc' = "done"
    /\ UNCHANGED <<callNo, argVars, scaledVars, genVars, model, status, col_value,
                   cerr, prev, callerVars, unitVars>>

---------------------------------------------------------------------------
\* The next call of optimizeCutting: the same stock, kerf and set of distinct
\* lengths after scaling; the cut list may differ in order and multiplicity.

SameGeneratorKey(c) ==
    /\ {ScaleLength(c.cuts[i].length) : i \in 1..Len(c.cuts)} = Range(allScaledCuts)
    /\ ScaleLength(c.stockLen) = scaled_stockLen
    /\ ScaleLength(c.kerf) = scaled_kerf

NextCall ==
    /\ pc = "done"
    /\ entry = "direct"
    /\ callNo < MaxCalls
    /\ \E c \in Calls :
          /\ SameGeneratorKey(c)
          /\ cuts' = c.cuts /\ stockLen' = c.stockLen /\ kerf' = c.kerf
          /\ prev' = [used |-> TRUE, availableCuts |-> Range(allScaledCuts),
                      stockLen |-> scaled_stockLen, kerf |-> scaled_kerf,
                      patterns |-> patterns,
                      listDiffers |->
                          [i \in 1..Len(c.cuts) |-> ScaleLength(c.cuts[i].length)]
                              # allScaledCuts]
    /\ callNo' = callNo + 1
    /\ pc' = "start"
    /\ scaled_stockLen' = 0 /\ scaled_kerf' = 0 /\ allScaledCuts' = <<>>
    /\ uniqueCuts' = <<>> /\ currentPattern' = <<>> /\ stack' = <<>>
    /\ patterns' = <<>>
    /\ model' = EmptyModel /\ status' = "kNotset" /\ col_value' = <<>>
    /\ result' = EmptySolution /\ cerr' = "none"
    /\ UNCHANGED <<callerVars, unitVars>>

---------------------------------------------------------------------------
\* Pattern Aggregator: groupPatterns of src/src/output.cpp.

\* std::round-to-even of n / d for n >= 0, as the stream formats a double.
RoundHalfEven(n, d) ==
    LET q == n \div d
        r == n % d
    IN IF 2 * r > d \/ (2 * r = d /\ q % 2 = 1) THEN q + 1 ELSE q

\* std::fixed << std::setprecision(5): the value in units of 10^-5.
KeyPrecision == 100000

FixedPointWhole(x) == RoundHalfEven(x, Den) * KeyPrecision
FixedPoint(x) ==
    (x \div Den) * KeyPrecision + RoundHalfEven((x % Den) * KeyPrecision, Den)

\* The decimal digits of n, as character codes.
RECURSIVE Digits(_)
Digits(n) == IF n < 10 THEN <<48 + n>> ELSE Append(Digits(n \div 10), 48 + (n % 10))

RECURSIVE PadLeft(_, _)
PadLeft(ds, n) == IF Len(ds) >= n THEN ds ELSE PadLeft(<<48>> \o ds, n)

\* One length as the stream writes it: whole part, '.', five decimals.
FormattedWholePart(x) == Digits(FixedPoint(x) \div KeyPrecision)
Formatted(x) ==
    LET u == FixedPoint(x)
    IN Digits(u \div KeyPrecision) \o <<46>>
          \o PadLeft(Digits(u % KeyPrecision), 5)

GreaterLength(a, b) == a.length > b.length
IntGreater(a, b) == a > b

\* Lines 56-69: the lengths sorted descending, formatted and joined by ','.
RECURSIVE Joined(_)
Joined(lengths) ==
    IF lengths = <<>> THEN <<>>
    ELSE IF Len(lengths) = 1 THEN Formatted(lengths[1])
    ELSE Formatted(lengths[1]) \o <<44>> \o Joined(Tail(lengths))

KeyOf(stick) ==
    Joined(SortSeq([j \in 1..Len(stick.cuts) |-> stick.cuts[j].length], IntGreater))

\* Line 73: it->second.count++
CountAgainKept(p) == p
CountAgain(p) == [p EXCEPT !.count = @ + 1]

\* Lines 75-82: the Pattern of the first stick with a key.
NewPatternAsGiven(stick) ==
    [cuts |-> stick.cuts, count |-> 1,
     used_len |-> stick.used_len, waste_len |-> stick.waste_len]
NewPattern(stick) ==
    [cuts |-> SortSeq(stick.cuts, GreaterLength),
     count |-> 1,
     used_len |-> stick.used_len,
     waste_len |-> stick.waste_len]

\* Lines 55-84: the loop over the sticks, filling patternMap.
RECURSIVE FillPatternMap(_, _)
FillPatternMap(sticks, patternMap) ==
    IF sticks = <<>> THEN patternMap
    ELSE LET key == KeyOf(Head(sticks))
         IN IF key \in DOMAIN patternMap
            THEN FillPatternMap(Tail(sticks),
                                [patternMap EXCEPT ![key] = CountAgain(@)])
            ELSE FillPatternMap(Tail(sticks),
                                patternMap @@ (key :> NewPattern(Head(sticks))))

\* Lines 86-89: the values of the std::map in the order of their keys.
RECURSIVE InKeyOrder(_, _)
InKeyOrder(patternMap, keys) ==
    IF keys = {} THEN <<>>
    ELSE LET k == CHOOSE x \in keys : \A y \in keys \ {x} : LexLess(x, y)
         IN <<patternMap[k]>> \o InKeyOrder(patternMap, keys \ {k})

\* Lines 91-97: by count descending, then by used_len descending.
PatternBeforeByCount(a, b) == a.count > b.count
PatternBefore(a, b) ==
    IF a.count # b.count THEN a.count > b.count ELSE a.used_len > b.used_len

\* groupPatterns.  Patterns equal in count and used_len keep the order of the
\* map here; std::sort may leave them in either order.
groupPatterns(sticks) ==
    LET patternMap == FillPatternMap(sticks, <<>>)
    IN SortSeq(InKeyOrder(patternMap, DOMAIN patternMap), PatternBefore)

---------------------------------------------------------------------------
\* The callers of optimizeCutting: the handler of POST /api/optimize in
\* src/src/web_server.cpp and main of src/main.cpp.

\* kerf = 0.125 when the parsed kerf is not positive.
DefaultKerf == Inches(1) \div 8

\* x <= 0 on doubles: false when x is NaN.
NotPositive(x) == x # NaN /\ x <= 0

EffectiveKerf(k) == IF NotPositive(k) THEN DefaultKerf ELSE k

\* int n = <double>: the fraction is dropped.
ToInt(x) == IF x >= 0 THEN (x \div Den) * Den ELSE -(((-x) \div Den) * Den)

\* web_server.cpp lines 254-280: the loop over the cut items.
RECURSIVE WebScan(_, _, _)
WebScan(items, stock, lengths) ==
    IF items = <<>> THEN [exceeds |-> FALSE, lengths |-> lengths]
    ELSE LET item == Head(items)
         IN IF item.length <= 0 \/ item.quantity <= 0
            THEN WebScan(Tail(items), stock, lengths)
            ELSE IF item.length > stock
            THEN [exceeds |-> TRUE, lengths |-> lengths]
            ELSE WebScan(Tail(items), stock,
                         lengths \o Repeat(item.length, item.quantity))

\* main.cpp lines 113-167: the loop over the input lines.
RECURSIVE CliScan(_, _, _)
CliScan(items, stock, lengths) ==
    IF items = <<>> THEN lengths
    ELSE LET item == Head(items)
             length == ToInt(item.length)
         IN IF item.quantity <= 0 \/ length <= 0 \/ length > stock
            THEN CliScan(Tail(items), stock, lengths)
            ELSE CliScan(Tail(items), stock,
                         lengths \o Repeat(length, item.quantity))

\* The caller ends without calling optimizeCutting.
Refuses(code, message) ==
    /\ response' = [NoResponse EXCEPT !.status = code, !.error = message]
    /\ pc' = "responded"
    /\ UNCHANGED <<callNo, argVars>>

\* The caller calls optimizeCutting(cuts, stockLen, kerf).
Invokes(lengths, stock, k) ==
    /\ cuts' = MakeCuts(lengths)
    /\ stockLen' = stock
    /\ kerf' = k
    /\ callNo' = callNo + 1
    /\ pc' = "start"
    /\ UNCHANGED response

\* web_server.cpp lines 232-299: validation, then the call.
PostOptimize ==
    /\ pc = "request"
    /\ entry = "web"
    /\ LET scan == WebScan(request.cuts, request.stockLength, <<>>)
       IN IF request.stockLength <= 0
          THEN Refuses(400, "Invalid stock length")
          ELSE IF scan.exceeds
          THEN Refuses(400, "Cut length exceeds stock length")
          ELSE IF scan.lengths = <<>>
          THEN Refuses(400, "No valid cuts provided")
          ELSE Invokes(scan.lengths, request.stockLength,
                       EffectiveKerf(request.kerf))
    /\ UNCHANGED <<scaledVars, genVars, solveVars, prev, entry, request, unitVars>>

\* web_server.cpp lines 305-347: the answer after optimizeCutting returned.
PostOptimizeResponds ==
    /\ pc = "done"
    /\ entry = "web"
    /\ response' =
          IF result.num_sticks = 0
          THEN [NoResponse EXCEPT !.status = 500, !.error = "No solution found"]
          ELSE [NoResponse EXCEPT !.status = 200, !.solution = TRUE,
                                  !.patterns = groupPatterns(result.sticks)]
    /\ pc' = "responded"
    /\ UNCHANGED <<callNo, argVars, scaledVars, genVars, solveVars, prev, entry,
                   request, unitVars>>

\* main.cpp lines 85-178: the inputs, then the call.
Main ==
    /\ pc = "request"
    /\ entry = "cli"
    /\ LET stockIn == ToInt(request.stockLength)
           lengths == CliScan(request.cuts, stockIn, <<>>)
       IN IF stockIn <= 0
          THEN Refuses(1, "Stock length must be a positive number")
          ELSE IF lengths = <<>>
          THEN Refuses(0, "No cuts entered")
          ELSE Invokes(lengths, stockIn, EffectiveKerf(request.kerf))
    /\ UNCHANGED <<scaledVars, genVars, solveVars, prev, entry, request, unitVars>>

\* output.cpp lines 104-107: printResults returns early on num_sticks == 0.
PrintsPlan(solution) == solution.num_sticks # 0

\* output.cpp lines 160-181: generateHTML writes the file whenever it opens.
WritesHtml(solution) == TRUE

\* main.cpp lines 186-194: printResults, generateHTML, openFile.
MainReports ==
    /\ pc = "done"
    /\ entry = "cli"
    /\ response' =
          [NoResponse EXCEPT
              !.error = IF PrintsPlan(result) THEN "none" ELSE "No solution found",
              !.printed = PrintsPlan(result),
              !.html = WritesHtml(result),
              !.opened = TRUE,
              !.patterns = groupPatterns(result.sticks)]
    /\ pc' = "responded"
    /\ UNCHANGED <<callNo, argVars, scaledVars, genVars, solveVars, prev, entry,
                   request, unitVars>>

---------------------------------------------------------------------------
\* groupPatterns called on a list of Sticks of any make.

MaxSticks == 4

\* A Stick of stock Grid(6) with the given cut lengths, its cuts numbered from
\* id, and the used length that the kerf k gives.
StickWith(lens, id, k) ==
    LET used == SumSeq(lens) + (IF lens = <<>> THEN 0 ELSE (Len(lens) - 1) * k)
    IN [cuts |-> [j \in 1..Len(lens) |-> Cut(lens[j], id + j)],
        stock_len |-> Grid(6),
        used_len |-> used,
        waste_len |-> Grid(6) - used]

\* No cut; one cut; the same two lengths in either order, cut with and without
\* a kerf; and two lengths one of which is off the scaling grid.
StickChoices ==
    {StickWith(<<>>, 0, 0), StickWith(<<Grid(2)>>, 0, 0),
     StickWith(<<Grid(2), Grid(3)>>, 0, 0),
     StickWith(<<Grid(3), Grid(2)>>, 1, Grid(1)),
     StickWith(<<Grid(2) + 1, Grid(3)>>, 0, 0)}

\* Every variable of optimizeCutting and of its callers at rest.
PipelineIdle ==
    /\ callNo = 0
    /\ cuts = <<>> /\ stockLen = 0 /\ kerf = 0
    /\ scaled_stockLen = 0 /\ scaled_kerf = 0 /\ allScaledCuts = <<>>
    /\ uniqueCuts = <<>> /\ currentPattern = <<>> /\ stack = <<>>
    /\ patterns = <<>>
    /\ model = EmptyModel /\ status = "kNotset" /\ col_value = <<>>
    /\ result = EmptySolution /\ cerr = "none"
    /\ prev = NoPrev
    /\ request = NoRequest /\ response = NoResponse

InitGroup ==
    /\ pc = "group"
    /\ entry = "groupPatterns"
    /\ PipelineIdle
    /\ sticksIn \in {<<>>} \cup SeqsUpTo(StickChoices, MaxSticks)
    /\ grouped = <<>>
    /\ text = <<>> /\ parsed = [n |-> 0, d |-> 1]

GroupPatterns ==
    /\ pc = "group"
    /\ grouped' = groupPatterns(sticksIn)
    /\ pc' = "grouped"
    /\ UNCHANGED <<callNo, argVars, scaledVars, genVars, solveVars, prev,
                   callerVars, sticksIn, text, parsed>>

NextGroup == GroupPatterns

SpecGroup == InitGroup /\ [][NextGroup]_vars

---------------------------------------------------------------------------
\* generatePatterns called on scaled arguments of its own.

\* The scaled lengths of the calls, and the shortest length there is.
SearchLengths == {1} \cup {ScaleLength(x) : x \in LengthChoices}

SearchInputs ==
    {[availableCuts |-> c, stockLen |-> ScaleLength(s), kerf |-> ScaleLength(k)] :
        c \in SeqsUpTo(SearchLengths, MaxCuts),
        s \in StockChoices, k \in KerfChoices}
      \cup {[availableCuts |-> <<0>>, stockLen |-> ScaleLength(s), kerf |-> 0] :
              s \in StockChoices}

InitSearch ==
    /\ pc = "scaled"
    /\ entry = "generatePatterns"
    /\ callNo = 0
    /\ cuts = <<>> /\ stockLen = 0 /\ kerf = 0
    /\ \E a \in SearchInputs :
          /\ allScaledCuts = a.availableCuts
          /\ scaled_stockLen = a.stockLen
          /\ scaled_kerf = a.kerf
    /\ uniqueCuts = <<>> /\ currentPattern = <<>> /\ stack = <<>>
    /\ patterns = <<>>
    /\ model = EmptyModel /\ status = "kNotset" /\ col_value = <<>>
    /\ result = EmptySolution /\ cerr = "none"
    /\ prev = NoPrev
    /\ request = NoRequest /\ response = NoResponse
    /\ UnitsIdle

NextSearch ==
    \/ GeneratePatternsBegin
    \/ FindPatternsFits
    \/ FindPatternsExhausts
    \/ FindPatternsSkips
    \/ FindPatternsReturns
    \/ GeneratePatternsEnd

\* The search is sequential code: a step that can be taken is taken.
SpecSearch == InitSearch /\ [][NextSearch]_vars /\ WF_vars(NextSearch)

---------------------------------------------------------------------------
\* The parsers of src/parse.cpp.  A string is the sequence of its characters;
\* a double is the fraction n / d in lowest terms, with d = 0 for the values
\* that are not finite: NaN is 0 / 0 and infinity is 1 / 0 or -1 / 0.

MaxText == 3

RECURSIVE GCD(_, _)
GCD(a, b) == IF b = 0 THEN a ELSE GCD(b, a % b)

Abs(x) == IF x < 0 THEN -x ELSE x

Rat(n, d) ==
    LET g == GCD(Abs(n), Abs(d))
    IN IF g = 0 THEN [n |-> 0, d |-> 0]
       ELSE IF d < 0 THEN [n |-> -(n \div g), d |-> -(d \div g)]
       ELSE IF d = 0 THEN [n |-> (IF n > 0 THEN 1 ELSE -1), d |-> 0]
       ELSE [n |-> n \div g, d |-> d \div g]

Zero == Rat(0, 1)
NotANumber == Rat(0, 0)
Infinity == Rat(1, 0)

IsFinite(x) == x.d # 0

\* a + b, a * b and a / b on doubles.
RatAdd(a, b) ==
    IF IsFinite(a) /\ IsFinite(b) THEN Rat(a.n * b.d + b.n * a.d, a.d * b.d)
    ELSE IF a = NotANumber \/ b = NotANumber THEN NotANumber
    ELSE IF ~IsFinite(a) /\ ~IsFinite(b) /\ a # b THEN NotANumber
    ELSE IF IsFinite(a) THEN b ELSE a

RatMul(a, b) == Rat(a.n * b.n, a.d * b.d)

RatDiv(a, b) == Rat(a.n * b.d, a.d * b.n)

RECURSIVE Pow10(_)
Pow10(k) == IF k = 0 THEN 1 ELSE 10 * Pow10(k - 1)

DigitChars == {"0", "1", "2", "3", "4", "5", "6", "7", "8", "9"}

DigitValue(c) ==
    CASE c = "0" -> 0 [] c = "1" -> 1 [] c = "2" -> 2 [] c = "3" -> 3
      [] c = "4" -> 4 [] c = "5" -> 5 [] c = "6" -> 6 [] c = "7" -> 7
      [] c = "8" -> 8 [] c = "9" -> 9

\* \s of std::regex and std::isspace, on the characters of the model.
IsSpace(c) == c \in {" ", "\t"}

\* std::regex_replace(s, std::regex("^\\s+|\\s+$"), "")
RECURSIVE TrimLeft(_)
TrimLeft(s) == IF s # <<>> /\ IsSpace(Head(s)) THEN TrimLeft(Tail(s)) ELSE s

RECURSIVE TrimRight(_)
TrimRight(s) ==
    IF s # <<>> /\ IsSpace(s[Len(s)]) THEN TrimRight(SubSeq(s, 1, Len(s) - 1))
    ELSE s

Trim(s) == TrimRight(TrimLeft(s))

\* s.find(c): the first position of c, counted from 1, or 0 for npos.
Find(s, c) ==
    IF c \in Range(s) THEN CHOOSE i \in 1..Len(s) :
                              s[i] = c /\ \A j \in 1..(i - 1) : s[j] # c
    ELSE 0

\* s.find_last_of(" \t")
FindLastSpace(s) ==
    IF \E i \in 1..Len(s) : IsSpace(s[i])
    THEN CHOOSE i \in 1..Len(s) :
            IsSpace(s[i]) /\ \A j \in (i + 1)..Len(s) : ~IsSpace(s[j])
    ELSE 0

\* The number of digits s begins with, from position from on.
RECURSIVE DigitRun(_, _)
DigitRun(s, from) ==
    IF from <= Len(s) /\ s[from] \in DigitChars THEN 1 + DigitRun(s, from + 1)
    ELSE 0

\* The value of the digits s[from .. from + n - 1].
RECURSIVE DigitsValue(_, _, _)
DigitsValue(s, from, n) ==
    IF n = 0 THEN 0
    ELSE 10 * DigitsValue(s, from, n - 1) + DigitValue(s[from + n - 1])

StartsWith(s, from, word) ==
    /\ from + Len(word) - 1 <= Len(s)
    /\ \A i \in 1..Len(word) : s[from + i - 1] = word[i]

\* std::stod(s, &pos): the longest prefix that is a number (a sign; then
\* digits with a point and an exponent, or inf, infinity or nan), its value
\* and the position after it; ok is FALSE when it throws.  Hexadecimal
\* numbers and nan(...) are left out: no string of the model holds them.
Stod(s) ==
    LET signed == s # <<>> /\ s[1] \in {"+", "-"}
        sign == IF signed /\ s[1] = "-" THEN -1 ELSE 1
        b == IF signed THEN 2 ELSE 1
        n1 == DigitRun(s, b)
        point == b + n1 <= Len(s) /\ s[b + n1] = "."
        n2 == IF point THEN DigitRun(s, b + n1 + 1) ELSE 0
        m == b + n1 + (IF point THEN 1 + n2 ELSE 0)
        esigned == m + 1 <= Len(s) /\ s[m] \in {"e", "E"}
                       /\ s[m + 1] \in {"+", "-"}
        eb == IF esigned THEN m + 2 ELSE m + 1
        n3 == IF m <= Len(s) /\ s[m] \in {"e", "E"} THEN DigitRun(s, eb) ELSE 0
        e == DigitsValue(s, eb, n3)
        mantissa == Rat(sign * (DigitsValue(s, b, n1) * Pow10(n2)
                                 + DigitsValue(s, b + n1 + 1, n2)), Pow10(n2))
    IN IF StartsWith(s, b, <<"n", "a", "n">>)
       THEN [ok |-> TRUE, val |-> NotANumber, pos |-> b + 2]
       ELSE IF StartsWith(s, b, <<"i", "n", "f", "i", "n", "i", "t", "y">>)
       THEN [ok |-> TRUE, val |-> Rat(sign, 0), pos |-> b + 7]
       ELSE IF StartsWith(s, b, <<"i", "n", "f">>)
       THEN [ok |-> TRUE, val |-> Rat(sign, 0), pos |-> b + 2]
       ELSE IF n1 + n2 = 0
       THEN [ok |-> FALSE, val |-> Zero, pos |-> 0]
       ELSE IF n3 = 0
       THEN [ok |-> TRUE, val |-> mantissa, pos |-> m - 1]
       ELSE [ok |-> TRUE,
             val |-> IF esigned /\ s[m + 1] = "-"
                     THEN RatDiv(mantissa, Rat(Pow10(e), 1))
                     ELSE RatMul(mantissa, Rat(Pow10(e), 1)),
             pos |-> eb + n3 - 1]

\* \d+(?:\.\d+)? matches the whole of s.
MatchesNumber(s) ==
    LET n1 == DigitRun(s, 1)
    IN /\ n1 >= 1
       /\ \/ n1 = Len(s)
          \/ /\ n1 + 1 < Len(s)
             /\ s[n1 + 1] = "."
             /\ DigitRun(s, n1 + 2) = Len(s) - n1 - 1

\* parseFraction, lines 19-53.
parseFraction(s) ==
    LET trimmed == Trim(s)
        slash == Find(trimmed, "/")
        num == Trim(SubSeq(trimmed, 1, slash - 1))
        den == Trim(SubSeq(trimmed, slash + 1, Len(trimmed)))
        number == Stod(trimmed)
    IN IF trimmed = <<>> THEN Zero
       ELSE IF slash # 0
       THEN IF MatchesNumber(num) /\ MatchesNumber(den)
                  /\ Stod(den).val # Zero
            THEN RatDiv(Stod(num).val, Stod(den).val)
            ELSE Zero
       ELSE IF number.ok /\ number.pos = Len(trimmed) THEN number.val
       ELSE Zero

\* The inches part, lines 84-100: a mixed number like "110 1/8" or one number.
InchesPart(trimmed) ==
    LET space_pos == FindLastSpace(trimmed)
        part1 == SubSeq(trimmed, 1, space_pos - 1)
        part2 == SubSeq(trimmed, space_pos + 1, Len(trimmed))
    IN IF space_pos # 0 /\ "/" \in Range(part2)
       THEN RatAdd(parseFraction(part1), parseFraction(part2))
       ELSE parseFraction(trimmed)

\* total_inches * 12.0 on the feet part, line 72.
FeetToInches(feet) == RatMul(feet, Rat(12, 1))

\* parseAdvancedLength, lines 62-103.
parseAdvancedLength(s) ==
    LET trimmed == Trim(s)
        feet_pos == Find(trimmed, "'")
        feet == IF feet_pos # 0
                THEN FeetToInches(parseFraction(SubSeq(trimmed, 1, feet_pos - 1)))
                ELSE Zero
        afterFeet == IF feet_pos # 0
                     THEN SubSeq(trimmed, feet_pos + 1, Len(trimmed))
                     ELSE trimmed
        unmarked == IF afterFeet # <<>> /\ afterFeet[Len(afterFeet)] = "\""
                    THEN SubSeq(afterFeet, 1, Len(afterFeet) - 1)
                    ELSE afterFeet
        inches == Trim(unmarked)
    IN IF trimmed = <<>> THEN Zero
       ELSE IF inches = <<>> THEN feet
       ELSE RatAdd(feet, InchesPart(inches))

\* The strings of the tests of tests/parse_test.cpp and of runTests.
TestLengthTexts ==
    {<<"2", "4", "'">>, <<"2", "8", "8">>, <<"2", "0", "'", " ", "6", "\"">>,
     <<"7", "'", "6", " ", "1", "/", "2", "\"">>,
     <<"1", "8", "0", " ", "1", "/", "2">>, <<"8", "'", "4", "\"">>,
     <<"b", "a", "d">>}

TestFractionTexts ==
    {<<"1", "/", "2">>, <<"0", ".", "1", "2", "5">>, <<"3", "/", "1", "6">>,
     <<" ", "3", " ", "/", " ", "6", " ">>, <<"j", "u", "n", "k">>}

\* Numbers std::stod reads that are no plain decimals.
OtherNumberTexts ==
    {<<"1", "e", "1">>, <<"n", "a", "n">>, <<"i", "n", "f">>, <<"-", "1">>,
     <<"5", "e", "-", "1">>, <<"1", "e">>}

Alphabet == {"0", "1", "2", "/", ".", " ", "'", "\"", "b"}

Texts ==
    {<<>>} \cup SeqsUpTo(Alphabet, MaxText) \cup TestLengthTexts
        \cup TestFractionTexts \cup OtherNumberTexts

InitParse ==
    /\ pc = "parse"
    /\ entry = "parser"
    /\ PipelineIdle
    /\ sticksIn = <<>> /\ grouped = <<>>
    /\ text \in Texts
    /\ parsed = Zero

ParseFraction ==
    /\ pc = "parse"
    /\ parsed' = parseFraction(text)
    /\ pc' = "parsedFraction"
    /\ UNCHANGED <<callNo, argVars, scaledVars, genVars, solveVars, prev,
                   callerVars, sticksIn, grouped, text>>

ParseAdvancedLength ==
    /\ pc = "parse"
    /\ parsed' = parseAdvancedLength(text)
    /\ pc' = "parsedLength"
    /\ UNCHANGED <<callNo, argVars, scaledVars, genVars, solveVars, prev,
                   callerVars, sticksIn, grouped, text>>

NextParse == ParseFraction \/ ParseAdvancedLength

SpecParse == InitParse /\ [][NextParse]_vars

---------------------------------------------------------------------------
\* What the claims speak of.

\* generatePatterns has returned: patterns is its result.
Generated == pc \in {"generated", "built", "solved", "done"}

\* optimizeCutting has returned a Solution decoded from an optimal solution.
ReturnedSolution == pc = "done" /\ status = "kOptimal"

ThisCall == [cuts |-> cuts, stockLen |-> stockLen, kerf |-> kerf]

Lengths == [i \in 1..Len(cuts) |-> cuts[i].length]

\* The lengths of the cuts of a Stick.
StickLengths(stick) == [j \in 1..Len(stick.cuts) |-> stick.cuts[j].length]

\* All cut lengths over all Sticks of the result.
RECURSIVE Flatten(_)
Flatten(ss) == IF ss = <<>> THEN <<>> ELSE Head(ss) \o Flatten(Tail(ss))

AllStickLengths ==
    Flatten([t \in 1..Len(result.sticks) |-> StickLengths(result.sticks[t])])

\* sum(lengths) + (pieces - 1) * kerf <= stock
Fits(lens, k, stock) ==
    lens = <<>> \/ SumSeq(lens) + (Len(lens) - 1) * k <= stock

\* The cuts an assignment f puts on unit b.
RECURSIVE OnUnit(_, _, _)
OnUnit(lens, f, b) ==
    IF lens = <<>> THEN <<>>
    ELSE (IF f[1] = b THEN <<Head(lens)>> ELSE <<>>)
            \o OnUnit(Tail(lens), Tail(f), b)

\* Every cut can be assigned to one of m stock units so that each unit fits.
Packable(lens, k, stock, m) ==
    \E f \in [1..Len(lens) -> 1..m] :
        \A b \in 1..m : Fits(OnUnit(lens, f, b), k, stock)

MinStockUnits(lens, k, stock) ==
    CHOOSE m \in 1..Len(lens) :
        /\ Packable(lens, k, stock, m)
        /\ \A j \in 1..(m - 1) : ~Packable(lens, k, stock, j)

\* C1: when every cut is at most the stock length and the solver returned an
\* optimal solution, num_sticks is the least number of stock units over all
\* assignments of the requested cuts to units that satisfy
\* sum(cut lengths) + (pieces - 1) * kerf <= stock length.
C1_MinimumStockUnits ==
    (/\ ReturnedSolution
     /\ AcceptedByCaller(ThisCall))
        => result.num_sticks = MinStockUnits(Lengths, kerf, stockLen)

C3_PatternFeasibility ==
    (pc = "done" /\ AcceptedByCaller(ThisCall))
        => \A t \in 1..Len(result.sticks) :
              Fits(StickLengths(result.sticks[t]), kerf, stockLen)

\* C4: every Stick of every returned Solution has
\* waste_len = stock_len - used_len and waste_len >= 0.
C4_WasteNonNegative ==
    (pc = "done" /\ AcceptedByCaller(ThisCall))
        => \A t \in 1..Len(result.sticks) :
              /\ result.sticks[t].waste_len
                    = result.sticks[t].stock_len - result.sticks[t].used_len
              /\ result.sticks[t].waste_len >= 0

\* C5: in every returned Solution total_waste is num_sticks times the stock
\* length minus the sum of used_len over the Sticks, which is the sum of the
\* Sticks' waste_len.
C5_TotalWaste ==
    pc = "done"
        => /\ result.total_waste
                 = result.num_sticks * stockLen
                     - SumSeq([t \in 1..Len(result.sticks) |-> result.sticks[t].used_len])
           /\ result.total_waste
                 = SumSeq([t \in 1..Len(result.sticks) |-> result.sticks[t].waste_len])

C5_Witness ==
    /\ pc = "done"
    /\ \E t, u \in 1..Len(result.sticks) :
          t # u /\ result.sticks[t] = result.sticks[u]
    /\ result.total_waste # 0
    /\ \E p \in 1..Len(col_value) : col_value[p] % ColDen # 0

\* One more piece of length L still fits beside the pieces of pattern p.
CanExtend(p, L, k, stock) == SumSeq(p) + L + Len(p) * k <= stock

RemoveAt(p, j) == SubSeq(p, 1, j - 1) \o SubSeq(p, j + 1, Len(p))

RECURSIVE MultisetSeq(_, _)
MultisetSeq(c, D) ==
    IF D = {} THEN <<>>
    ELSE LET m == CHOOSE x \in D : \A y \in D : x <= y
         IN Repeat(m, c[m]) \o MultisetSeq(c, D \ {m})

\* Every feasible maximal multiset over the lengths D; there is none when a
\* piece takes no space, since every multiset can then be extended.
MaximalPatterns(D, k, stock) ==
    LET small == CHOOSE x \in D : \A y \in D : x <= y
        most == IF small > stock \/ small + k = 0 THEN 0
                ELSE 1 + (stock - small) \div (small + k)
        all == {MultisetSeq(c, D) : c \in [D -> 0..most]}
    IN {p \in all : /\ p # <<>>
                    /\ Fits(p, k, stock)
                    /\ \A L \in D : ~CanExtend(p, L, k, stock)}

In(n) == ScaleLength(Inches(n))

\* C7: every feasible and maximal multiset over the distinct demanded lengths
\* is in the list generatePatterns returns; lengths {60, 40, 20}, stock 100,
\* kerf 0 yields {20,20,20,20,20}, {20,20,20,40}, {20,20,60}, {20,40,40}, {40,60}.
C7_Complete ==
    Generated
        => /\ MaximalPatterns(Range(allScaledCuts), scaled_kerf, scaled_stockLen)
                 \subseteq Range(patterns)
           /\ ThisCall = ScenarioA
                 => {<<In(20), In(20), In(20), In(20), In(20)>>,
                     <<In(20), In(20), In(20), In(40)>>,
                     <<In(20), In(20), In(60)>>,
                     <<In(20), In(40), In(40)>>,
                     <<In(40), In(60)>>} \subseteq Range(patterns)

C7_Witness ==
    /\ Generated
    /\ ThisCall = ScenarioA
    /\ Cardinality(MaximalPatterns(Range(allScaledCuts), scaled_kerf,
                                   scaled_stockLen)) = 5

IsAscending(p) == \A j \in 1..(Len(p) - 1) : p[j] <= p[j + 1]

SameMultiset(p, q) == \A x \in Range(p) \cup Range(q) : CountOf(x, p) = CountOf(x, q)

\* C8: the list generatePatterns returns holds no two patterns that are the
\* same multiset, and every pattern in it is sorted ascending.
C8_UniqueAndSorted ==
    Generated
        => /\ \A n \in 1..Len(patterns) : IsAscending(patterns[n])
           /\ \A n, m \in 1..Len(patterns) :
                 n # m => ~SameMultiset(patterns[n], patterns[m])

C8_Witness ==
    /\ Generated
    /\ Len(patterns) >= 2
    /\ \E n \in 1..Len(patterns) : Cardinality(Range(patterns[n])) >= 2

\* C9: two calls of generatePatterns with the same set of distinct cut
\* lengths, stock length and kerf return the same patterns, whatever the
\* order and the multiplicity of the entries of availableCuts.
C9_Deterministic ==
    (/\ Generated
     /\ prev.used
     /\ prev.availableCuts = Range(allScaledCuts)
     /\ prev.stockLen = scaled_stockLen
     /\ prev.kerf = scaled_kerf)
        => /\ Range(patterns) = Range(prev.patterns)
           /\ patterns = prev.patterns

C9_Witness ==
    /\ Generated
    /\ prev.used
    /\ prev.listDiffers
    /\ prev.availableCuts = Range(allScaledCuts)
    /\ Len(patterns) >= 2
    /\ Len(allScaledCuts) > Cardinality(Range(allScaledCuts))
    /\ ~IsAscending(allScaledCuts)

IsScenarioBStick(stick, pieces) ==
    /\ StickLengths(stick) = [j \in 1..pieces |-> Inches(90)]
    /\ stick.stock_len = Inches(288)

\* C10: five cuts of 90 with stock 288 and kerf 0.125 give exactly 2 Sticks,
\* one holding three 90s (used 270.25) and one holding two 90s whose waste is
\* 288 - (2 * 90 + 0.125) = 107.875.
C10_ScenarioB ==
    (ReturnedSolution /\ ThisCall = ScenarioB)
        => /\ result.num_sticks = 2
           /\ Len(result.sticks) = 2
           /\ \E t \in 1..Len(result.sticks) :
                 /\ IsScenarioBStick(result.sticks[t], 3)
                 /\ 4 * result.sticks[t].used_len = Inches(4 * 270 + 1)
           /\ \E t \in 1..Len(result.sticks) :
                 /\ IsScenarioBStick(result.sticks[t], 2)
                 /\ 8 * result.sticks[t].waste_len = Inches(8 * 107 + 7)

C10_Witness ==
    /\ pc = "done"
    /\ ThisCall = ScenarioB
    /\ status = "kOptimal"
    /\ result.num_sticks = 2

\* No requested cut is at most the stock length.
NoCutFits == \A i \in 1..Len(cuts) : cuts[i].length > stockLen

\* C11: when no requested cut length fits in the stock length, generatePatterns
\* returns an empty list and optimizeCutting returns the empty Solution with the
\* diagnostic of the pattern search, with no model built and no solver run;
\* and the list is non-empty whenever some requested cut is at most the stock.
C11_NoFeasiblePattern ==
    /\ (Generated /\ NoCutFits) => patterns = <<>>
    /\ (pc = "done" /\ NoCutFits)
          => /\ result = EmptySolution
             /\ cerr = "no valid cutting patterns"
             /\ model = EmptyModel
             /\ status = "kNotset"
    /\ (Generated /\ ~NoCutFits) => patterns # <<>>

\* C13: whenever the solver ends with a model status other than optimal,
\* optimizeCutting returns the empty Solution (no Sticks, num_sticks 0,
\* total_waste 0) with the solver diagnostic, and the column values are never
\* decoded: the decoder is reached with status optimal only.
C13_NotOptimalIsFailure ==
    /\ (pc = "done" /\ status \notin {"kOptimal", "kNotset"})
          => /\ result = EmptySolution
             /\ cerr = "HiGHS could not find an optimal solution"
    /\ pc = "solved" => status = "kOptimal"

\* The solver stopped at a limit with an incumbent in col_value.
C13_Witness ==
    /\ pc = "done"
    /\ status = "kTimeLimit"
    /\ \E p \in 1..Len(col_value) : col_value[p] > 0
    /\ result.num_sticks = 0

\* x is an integer multiple of 1 / PRECISION_SCALE.
OnGrid(x) == x % Sub = 0

\* s is x * PRECISION_SCALE rounded to the nearest integer.
IsNearest(s, x) == 2 * (s * Sub - x) <= Sub /\ 2 * (x - s * Sub) <= Sub

\* C19: a requested length that is a multiple of 1/1024 scales to exactly
\* length * 1024 and decodes to exactly itself, so with such requests every cut
\* length in a returned Stick is a requested length; stock length, kerf and
\* every cut are scaled by the same factor 1024 with the same rounding.
C19_ScalerRoundTrip ==
    /\ pc \in {"scaled", "find", "generated", "built", "solved", "done"}
          => /\ IsNearest(scaled_stockLen, stockLen)
             /\ IsNearest(scaled_kerf, kerf)
             /\ Len(allScaledCuts) = Len(cuts)
             /\ \A i \in 1..Len(cuts) :
                   /\ IsNearest(allScaledCuts[i], cuts[i].length)
                   /\ OnGrid(cuts[i].length)
                         => allScaledCuts[i] * Sub = cuts[i].length
    /\ (pc = "done" /\ \A i \in 1..Len(cuts) : OnGrid(cuts[i].length))
          => Range(AllStickLengths) \subseteq Range(Lengths)

C19_Witness ==
    /\ ReturnedSolution
    /\ \A i \in 1..Len(cuts) : OnGrid(cuts[i].length)
    /\ Cardinality(Range(AllStickLengths)) >= 2
    /\ ~OnGrid(stockLen)
    /\ ~OnGrid(kerf)

\* The model was built from the current patterns.
Built == pc \in {"built", "solved"} \/ (pc = "done" /\ status # "kNotset")

\* The i-th smallest element of S, i counted from 0.
NthSmallest(S, i) == CHOOSE x \in S : Cardinality({y \in S : y < x}) = i

\* C20: the model has exactly one row per distinct demanded length; row i is
\* the i-th smallest distinct scaled length, whatever the order of the input
\* cuts; the entries of every column and the row bounds use that same mapping.
C20_RowPerDistinctLength ==
    Built
        => /\ model.num_row_ = Cardinality(Range(allScaledCuts))
           /\ Len(model.row_lower_) = model.num_row_
           /\ Len(model.row_upper_) = model.num_row_
           /\ \A i \in 0..(model.num_row_ - 1) :
                 LET L == NthSmallest(Range(allScaledCuts), i)
                 IN /\ model.row_lower_[i + 1] = CountOf(L, allScaledCuts)
                    /\ model.row_upper_[i + 1] = CountOf(L, allScaledCuts)
                    /\ \A p \in 1..model.num_col_ :
                          Entry(model, i, p) = CountOf(L, patterns[p])

\* The input cuts are not in ascending order and the rows differ in demand.
C20_Witness ==
    /\ Built
    /\ model.num_row_ >= 2
    /\ ~IsAscending(allScaledCuts)
    /\ model.row_lower_[1] # model.row_lower_[2]
    /\ \E p \in 1..model.num_col_ : Entry(model, 0, p) # Entry(model, 1, p)

\* The caller has answered after optimizeCutting returned no stick.
AnsweredZeroSticks == pc = "responded" /\ callNo > 0 /\ result.num_sticks = 0

\* C12: a Solution with zero sticks is never treated as success: the web
\* handler answers with an error status and no solution body, and the
\* command-line flow prints no results and writes and opens no HTML plan.
C12_ZeroSticksNeverSuccess ==
    AnsweredZeroSticks
        => /\ entry = "web"
                 => /\ response.status >= 400
                    /\ response.error # "none"
                    /\ ~response.solution
           /\ entry = "cli"
                 => /\ ~response.printed
                    /\ ~response.html
                    /\ ~response.opened

\* The request is one the claim calls invalid.
InvalidRequest ==
    \/ request.stockLength <= 0
    \/ ~(request.kerf # NaN /\ request.kerf > 0)
    \/ \E i \in 1..Len(request.cuts) : request.cuts[i].length > request.stockLength

\* The caller has called optimizeCutting.
Invoked == entry \in {"web", "cli"} /\ callNo > 0

\* C14: a request with a non-positive stock length, a non-positive kerf or a
\* cut longer than the stock is rejected with a descriptive failure before
\* optimizeCutting is invoked, and optimizeCutting is only ever called with
\* stock > 0, kerf > 0, a non-empty cut list and every cut in (0, stock].
C14_InvalidInputRejected ==
    /\ (entry \in {"web", "cli"} /\ pc # "request" /\ InvalidRequest)
          => /\ callNo = 0
             /\ pc = "responded"
             /\ response.error # "none"
    /\ Invoked => AcceptedByCaller(ThisCall)

\* C15: for every list of Sticks, the counts of the Patterns groupPatterns
\* returns add up to the number of Sticks, and every count is at least 1.
C15_CountConservation ==
    pc = "grouped"
        => /\ SumSeq([g \in 1..Len(grouped) |-> grouped[g].count]) = Len(sticksIn)
           /\ \A g \in 1..Len(grouped) : grouped[g].count >= 1

\* Sticks that hold the same lengths in a different order share a Pattern.
C15_Witness ==
    /\ pc = "grouped"
    /\ Len(sticksIn) >= 3
    /\ Len(grouped) >= 2
    /\ \E t, u \in 1..Len(sticksIn) :
          /\ StickLengths(sticksIn[t]) # StickLengths(sticksIn[u])
          /\ KeyOf(sticksIn[t]) = KeyOf(sticksIn[u])

\* The cut lengths of the Patterns, each Pattern taken count times.
PlanLengths(plan) ==
    Flatten([g \in 1..Len(plan) |->
                Flatten([c \in 1..plan[g].count |-> StickLengths(plan[g])])])

\* C16: for the Sticks the decoder produced, the cut lengths of the Patterns
\* groupPatterns returns, each Pattern taken count times, are as a multiset
\* the cut lengths of all the Sticks.
C16_CutConservation ==
    (pc = "responded" /\ callNo > 0 /\ (response.solution \/ response.html))
        => SameMultiset(PlanLengths(response.patterns), AllStickLengths)

C16_Witness ==
    /\ pc = "responded"
    /\ response.solution
    /\ Len(response.patterns) >= 2
    /\ \E g \in 1..Len(response.patterns) : response.patterns[g].count >= 2

\* The results the tests expect of parseAdvancedLength, in whole inches.
ExpectedLengths ==
    {<<<<"2", "4", "'">>, 288>>, <<<<"2", "8", "8">>, 288>>,
     <<<<"2", "0", "'", " ", "6", "\"">>, 246>>,
     <<<<"7", "'", "6", " ", "1", "/", "2", "\"">>, 91>>,
     <<<<"1", "8", "0", " ", "1", "/", "2">>, 181>>,
     <<<<"8", "'", "4", "\"">>, 100>>, <<<<"b", "a", "d">>, 0>>}

\* C17: parseAdvancedLength returns the total length in inches, 12 * feet +
\* whole inches + fraction, as a whole number of inches with halves rounded
\* up: 288 for "24'" and "288", 246 for "20' 6\"", 91 for "7'6 1/2\"", 181 for
\* "180 1/2", 100 for "8'4\"", and 0 for the unparsable "bad".
C17_WholeInches ==
    pc = "parsedLength"
        => /\ parsed.d = 1
           /\ \A t \in ExpectedLengths : text = t[1] => parsed = Rat(t[2], 1)

\* s is digits with at most one point, after an optional sign.
IsPlainDecimal(s) ==
    LET b == IF s # <<>> /\ s[1] \in {"+", "-"} THEN 2 ELSE 1
        n1 == DigitRun(s, b)
        point == b + n1 <= Len(s) /\ s[b + n1] = "."
        n2 == IF point THEN DigitRun(s, b + n1 + 1) ELSE 0
    IN n1 + n2 >= 1 /\ Len(s) = b - 1 + n1 + (IF point THEN 1 + n2 ELSE 0)

\* s is "n/d" with numbers n and d # 0, whitespace around them ignored.
IsFractionForm(s) ==
    LET slash == Find(s, "/")
        n == Trim(SubSeq(s, 1, slash - 1))
        d == Trim(SubSeq(s, slash + 1, Len(s)))
    IN /\ slash # 0
       /\ MatchesNumber(n)
       /\ MatchesNumber(d)
       /\ Stod(d).val # Zero

\* C18: parseFraction returns numerator / denominator for a string "n/d"
\* (whitespace around the numbers and the slash ignored, d # 0), the number
\* itself for a plain decimal that takes the whole string, and 0.0 for every
\* other input.
C18_FractionOrDecimalOrZero ==
    pc = "parsedFraction"
        => LET s == Trim(text)
               slash == Find(s, "/")
           IN IF IsFractionForm(s)
              THEN parsed = RatDiv(Stod(Trim(SubSeq(s, 1, slash - 1))).val,
                                   Stod(Trim(SubSeq(s, slash + 1, Len(s)))).val)
              ELSE IF IsPlainDecimal(s) THEN parsed = Stod(s).val
              ELSE parsed = Zero

\* The positions of column p (1-based) in Aindex and Avalue.
ColumnSlots(lp, p) == (lp.start_[p] + 1)..lp.start_[p + 1]

RECURSIVE SumOver(_, _)
SumOver(f, S) ==
    IF S = {} THEN 0
    ELSE LET x == CHOOSE y \in S : TRUE IN f[x] + SumOver(f, S \ {x})

\* C21: for every pattern p and every distinct demanded length r the
\* column-wise matrix holds the entry (r, p) = the number of occurrences of
\* length r in pattern p, zero entries are left out, Astart[p+1] - Astart[p] is
\* the number of distinct lengths in pattern p, and the entries of column p add
\* up to the number of pieces of pattern p.
C21_SparseMatrix ==
    Built
        => /\ Len(model.start_) = model.num_col_ + 1
           /\ model.start_[1] = 0
           /\ Len(model.index_) = model.start_[model.num_col_ + 1]
           /\ Len(model.value_) = Len(model.index_)
           /\ \A p \in 1..model.num_col_ :
                 /\ \A k \in ColumnSlots(model, p) :
                       /\ model.index_[k] \in 0..(model.num_row_ - 1)
                       /\ model.value_[k] > 0
                 /\ \A r \in 0..(model.num_row_ - 1) :
                       LET n == CountOf(NthSmallest(Range(allScaledCuts), r),
                                        patterns[p])
                           at == {k \in ColumnSlots(model, p) : model.index_[k] = r}
                       IN IF n = 0 THEN at = {}
                          ELSE /\ Cardinality(at) = 1
                               /\ \A k \in at : model.value_[k] = n
                 /\ model.start_[p + 1] - model.start_[p]
                       = Cardinality(Range(patterns[p]))
                 /\ SumOver(model.value_, ColumnSlots(model, p)) = Len(patterns[p])

\* A column with an entry above 1, one with two entries, one with a zero left out.
C21_Witness ==
    /\ Built
    /\ model.num_row_ >= 2
    /\ \E k \in 1..Len(model.value_) : model.value_[k] >= 2
    /\ \E p \in 1..model.num_col_ : Cardinality(ColumnSlots(model, p)) >= 2
    /\ \E p \in 1..model.num_col_ :
          Cardinality(ColumnSlots(model, p)) < model.num_row_

\* The requested Cuts whose scaled length is s.
RequestedOf(s) == {i \in 1..Len(cuts) : ScaleLength(cuts[i].length) = s}

\* The rows (0-based) whose length is s.
RowsOf(s) ==
    {r \in 0..(model.num_row_ - 1) : NthSmallest(Range(allScaledCuts), r) = s}

\* C22: for every row the lower and the upper bound both equal the number of
\* requested Cuts whose scaled length is the row's length; every distinct
\* requested length has exactly one row; the bounds of all rows add up to the
\* number of requested cuts.
C22_RowBoundsAreDemand ==
    Built
        => /\ \A r \in 0..(model.num_row_ - 1) :
                 LET demand == Cardinality(
                         RequestedOf(NthSmallest(Range(allScaledCuts), r)))
                 IN /\ model.row_lower_[r + 1] = demand
                    /\ model.row_upper_[r + 1] = demand
           /\ \A i \in 1..Len(cuts) :
                 Cardinality(RowsOf(ScaleLength(cuts[i].length))) = 1
           /\ SumSeq(model.row_lower_) = Len(cuts)
           /\ SumSeq(model.row_upper_) = Len(cuts)

\* Two rows, one of them demanded twice by two requested lengths that differ
\* before scaling.
C22_Witness ==
    /\ Built
    /\ model.num_row_ = 2
    /\ \E r \in 1..model.num_row_ : model.row_lower_[r] >= 2
    /\ Cardinality(Range(Lengths)) > model.num_row_

\* The integer nearest to the column value v, a numerator over ColDen.
NearestInteger(v) ==
    CHOOSE n \in (-1)..Len(cuts) :
        2 * (v - n * ColDen) < ColDen /\ 2 * (n * ColDen - v) < ColDen

\* The usage of column i: its value rounded when that is positive, else zero.
Usage(i) ==
    IF NearestInteger(col_value[i]) > 0 THEN NearestInteger(col_value[i]) ELSE 0

\* The Sticks of the result that carry pattern p.
Carrying(p) ==
    {t \in 1..Len(result.sticks) :
        StickLengths(result.sticks[t]) = [j \in 1..Len(p) |-> p[j] * Sub]}

\* C23: for every column i the number of Sticks carrying pattern i is the
\* column value rounded to the nearest integer when that is positive and zero
\* otherwise; a column whose value rounds to zero or below adds no Stick and
\* nothing to num_sticks or total_waste; num_sticks is the number of Sticks.
C23_Decoding ==
    ReturnedSolution
        => /\ \A i \in 1..Len(patterns) :
                 Cardinality(Carrying(patterns[i])) = Usage(i)
           /\ Len(result.sticks)
                 = SumSeq([i \in 1..Len(patterns) |-> Usage(i)])
           /\ result.num_sticks = Len(result.sticks)
           /\ result.total_waste
                 = SumSeq([i \in 1..Len(patterns) |->
                             Usage(i) * (stockLen - (SumSeq(patterns[i]) * Sub
                                             + (Len(patterns[i]) - 1) * kerf))])

\* A column with a value below zero that rounds to zero beside two columns in
\* use whose values are no integers.
C23_Witness ==
    /\ ReturnedSolution
    /\ \E i \in 1..Len(col_value) : col_value[i] < 0 /\ Usage(i) = 0
    /\ Cardinality({i \in 1..Len(col_value) :
                       Usage(i) >= 1 /\ col_value[i] % ColDen # 0}) >= 2
    /\ result.total_waste # 0

\* C24: every Stick's used_len is the sum of its cut lengths plus (number of
\* cuts - 1) times the unscaled kerf: one kerf fewer than pieces, and none for
\* a Stick of a single piece.
C24_UsedLength ==
    pc = "done"
        => \A t \in 1..Len(result.sticks) :
              LET lens == StickLengths(result.sticks[t])
              IN /\ lens # <<>>
                 /\ result.sticks[t].used_len
                       = SumSeq(lens) + (Len(lens) - 1) * kerf
                 /\ Len(lens) = 1 => result.sticks[t].used_len = lens[1]

\* A Stick of one piece beside a Stick of several, with a kerf that scaling
\* would change.
C24_Witness ==
    /\ pc = "done"
    /\ ~OnGrid(kerf)
    /\ \E t \in 1..Len(result.sticks) : Len(result.sticks[t].cuts) = 1
    /\ \E t \in 1..Len(result.sticks) : Len(result.sticks[t].cuts) >= 2

\* s with its elements i and i + 1 exchanged.
SwapAt(s, i) ==
    [j \in 1..Len(s) |-> IF j = i THEN s[i + 1] ELSE IF j = i + 1 THEN s[i] ELSE s[j]]

\* The Patterns are in the order the claim names.
InReportOrder(plan) ==
    \A g \in 1..(Len(plan) - 1) :
        \/ plan[g].count > plan[g + 1].count
        \/ /\ plan[g].count = plan[g + 1].count
           /\ plan[g].used_len >= plan[g + 1].used_len

\* No two Patterns have the same count and used_len.
DistinctPairs(plan) ==
    \A g, h \in 1..Len(plan) :
        g # h => <<plan[g].count, plan[g].used_len>> # <<plan[h].count, plan[h].used_len>>

\* The groups in their order, each named by its cut lengths.
GroupOrder(plan) == [g \in 1..Len(plan) |-> StickLengths(plan[g])]

\* The descending cut lengths of a Stick.
Descending(stick) == SortSeq(StickLengths(stick), IntGreater)

\* Sticks that hold the same lengths report the same used and waste length.
SameCutsSameUse(sticks) ==
    \A t, u \in 1..Len(sticks) :
        Descending(sticks[t]) = Descending(sticks[u])
            => /\ sticks[t].used_len = sticks[u].used_len
               /\ sticks[t].waste_len = sticks[u].waste_len

\* Exchanging two neighbours of the input leaves the order of the groups.
OrderKeptUnderSwaps ==
    \A i \in 1..(Len(sticksIn) - 1) :
        LET other == groupPatterns(SwapAt(sticksIn, i))
        IN (DistinctPairs(grouped) /\ DistinctPairs(other))
              => GroupOrder(other) = GroupOrder(grouped)

FiveDecimals(x) == (2 * x * KeyPrecision + Den) \div (2 * Den)

\* The cut lengths of a Stick or a Pattern, descending, to 5 decimal places.
Shape(stick) ==
    LET lens == Descending(stick)
    IN [j \in 1..Len(lens) |-> FiveDecimals(lens[j])]

\* The Sticks of the input that have the shape of Pattern g, in input order.
Members(g) == {t \in 1..Len(sticksIn) : Shape(sticksIn[t]) = Shape(grouped[g])}

First(S) == CHOOSE t \in S : \A u \in S : t <= u

\* C26: groupPatterns puts two Sticks into the same Pattern if and only if
\* their cut lengths, sorted descending and compared at 5 decimal places, are
\* the same sequence; the Pattern's cuts are the cuts of the first such Stick
\* sorted by descending length, its used_len and waste_len are those of that
\* first Stick, and every later Stick only raises the count.
C26_MergeBySortedLengths ==
    pc = "grouped"
        => /\ \A t \in 1..Len(sticksIn) : \E g \in 1..Len(grouped) : t \in Members(g)
           /\ \A g, h \in 1..Len(grouped) :
                 g # h => Shape(grouped[g]) # Shape(grouped[h])
           /\ \A g \in 1..Len(grouped) :
                 /\ Members(g) # {}
                 /\ grouped[g].count = Cardinality(Members(g))
                 /\ LET first == sticksIn[First(Members(g))]
                    IN /\ \A c \in Range(first.cuts) \cup Range(grouped[g].cuts) :
                             CountOf(c, grouped[g].cuts) = CountOf(c, first.cuts)
                       /\ \A j \in 1..(Len(grouped[g].cuts) - 1) :
                             grouped[g].cuts[j].length >= grouped[g].cuts[j + 1].length
                       /\ grouped[g].used_len = first.used_len
                       /\ grouped[g].waste_len = first.waste_len

\* A Pattern of two Sticks that differ in the order and the ids of their cuts
\* and in their used length, the first of them not sorted, beside a Pattern
\* whose lengths differ from it by a quarter of the scaling grid.
C26_Witness ==
    /\ pc = "grouped"
    /\ Len(grouped) >= 2
    /\ \E g \in 1..Len(grouped) :
          /\ Cardinality(Members(g)) >= 2
          /\ LET first == sticksIn[First(Members(g))]
             IN /\ StickLengths(first) # Descending(first)
                /\ \E t \in Members(g) :
                      /\ sticksIn[t].cuts # first.cuts
                      /\ sticksIn[t].used_len # first.used_len
    /\ \E g, h \in 1..Len(grouped) :
          /\ Len(grouped[g].cuts) = Len(grouped[h].cuts)
          /\ \E j \in 1..Len(grouped[g].cuts) :
                grouped[g].cuts[j].length = grouped[h].cuts[j].length + 1

\* The number of nested findPatterns calls.
Depth == Len(stack)

\* C27: the recursion depth of the pattern search (the number of nested
\* findPatterns calls, which is the size of the current pattern plus one)
\* never exceeds the number of distinct cut lengths.
C27_DepthWithinDistinctLengths ==
    pc = "find"
        => /\ Depth = Len(currentPattern) + 1
           /\ Depth <= Cardinality(Range(allScaledCuts))

\* Every requested cut is at most the stock length.
EveryCutFits == \A i \in 1..Len(cuts) : cuts[i].length <= stockLen

\* The call has ended: optimizeCutting returned, or the process ended in it.
CallEnded == pc \in {"done", "exhausted"}

\* C28: whenever every requested cut length is at most the stock length, the
\* exact-demand model built by optimizeCutting has a feasible non-negative
\* integer solution, so the solver never reports it infeasible, and
\* optimizeCutting returns a Solution with at least one Stick and at most one
\* Stick per requested cut.
C28_FeasibleWhenCutsFit ==
    EveryCutFits
        => /\ Built => IsFeasible(model) /\ status # "kInfeasible"
           /\ CallEnded => pc = "done"
           /\ ReturnedSolution
                 => result.num_sticks >= 1 /\ result.num_sticks <= Len(cuts)

\* The input of the claim: every scaled cut at least 1, the scaled kerf at
\* least 0.
CutsTakeSpace ==
    /\ scaled_kerf >= 0
    /\ \A i \in 1..Len(allScaledCuts) : allScaledCuts[i] >= 1

\* Each nested findPatterns call is given a remainingLen that is not negative
\* and lower than its caller's by at least the smallest cut.
RemainingLenDecreases ==
    (pc = "find" /\ CutsTakeSpace)
        => \A d \in 1..Len(stack) :
              /\ stack[d].remainingLen >= 0
              /\ d > 1 => stack[d].remainingLen
                             <= stack[d - 1].remainingLen
                                   - uniqueCuts[Len(uniqueCuts)]

\* C29: generatePatterns terminates for every input whose scaled cut lengths
\* are all at least 1 with a scaled kerf of at least 0: each nested
\* findPatterns call lowers remainingLen by at least the smallest cut, and a
\* call on such an input reaches the removal of duplicates and returns.
C29_GeneratePatternsTerminates ==
    /\ []RemainingLenDecreases
    /\ (pc = "scaled" /\ CutsTakeSpace) ~> (pc = "generated")

\* generatePatterns has returned from a search that went as deep as the stock
\* has room for pieces of length 1.
C29_Witness ==
    /\ pc = "generated"
    /\ CutsTakeSpace
    /\ \E n \in 1..Len(patterns) : Len(patterns[n]) = scaled_stockLen
    /\ Cardinality(Range(allScaledCuts)) >= 2

\* The columns the decoder made Sticks of.
UsedColumns == {i \in 1..Len(patterns) : Usage(i) > 0}

\* The Patterns of the plan that hold the pieces of column i.
GroupsOf(plan, i) ==
    {g \in 1..Len(plan) :
        SameMultiset(StickLengths(plan[g]),
                     [j \in 1..Len(patterns[i]) |-> patterns[i][j] * Sub])}

\* The caller has put out the grouped plan of a decoded Solution.
PlanPutOut ==
    /\ pc = "responded"
    /\ callNo > 0
    /\ status = "kOptimal"
    /\ response.solution \/ response.html

\* C30: groupPatterns applied to the Sticks decoded from a solver result
\* yields exactly one Pattern per column with positive rounded usage, whose
\* count is that usage and whose cuts are the pieces of the column's pattern;
\* distinct columns are never merged and no column is split.
C30_OnePatternPerUsedColumn ==
    PlanPutOut
        => /\ Len(response.patterns) = Cardinality(UsedColumns)
           /\ \A i \in UsedColumns :
                 /\ Cardinality(GroupsOf(response.patterns, i)) = 1
                 /\ \A g \in GroupsOf(response.patterns, i) :
                       response.patterns[g].count = Usage(i)
           /\ \A i, j \in UsedColumns :
                 i # j => GroupsOf(response.patterns, i)
                             \cap GroupsOf(response.patterns, j) = {}

\* Two used columns, one of them used twice, beside columns not used.
C30_Witness ==
    /\ PlanPutOut
    /\ Cardinality(UsedColumns) >= 2
    /\ \E i \in UsedColumns : Usage(i) >= 2
    /\ Cardinality(UsedColumns) < Len(patterns)

Next ==
    \/ Scaling
    \/ ScalingNaN
    \/ GeneratePatternsBegin
    \/ FindPatternsFits
    \/ FindPatternsExhausts
    \/ FindPatternsSkips
    \/ FindPatternsReturns
    \/ GeneratePatternsEnd
    \/ NoPatterns
    \/ BuildModel
    \/ RunOptimal
    \/ RunNotOptimal
    \/ Decode
    \/ NextCall
    \/ PostOptimize
    \/ PostOptimizeResponds
    \/ Main
    \/ MainReports

Spec == Init /\ [][Next]_vars

=============================================================================
